---- MODULE Spec2Model ----
(***************************************************************************)
(* Model of the two Ansible modules of this repository:                    *)
(*   cloud/amazon/elasticache_parameter_group.py  (create / modify /       *)
(*       delete an ElastiCache parameter group)                            *)
(*   cloud/amazon/kinesis.py                      (create a Kinesis stream)*)
(* One action is one run of a module's main(): argument checks, the calls  *)
(* made to the AWS client, the exception handlers, and exit_json/fail_json.*)
(* The AWS service is the environment: each call either succeeds or raises *)
(* an error chosen nondeterministically.                                   *)
(***************************************************************************)
EXTENDS Naturals, Sequences, FiniteSets, TLC

\* ---------------------------------------------------------------- bounds
MaxNameLen == 1
MaxShards == 1

\* ------------------------------------------------------- python values
\* Strings are sequences of characters, so that str.lower() is computed.
Alphabet == {"R", "r"}

PyNone == [t |-> "None", v |-> <<>>]
PyStr(s) == [t |-> "str", v |-> s]
PyList(l) == [t |-> "list", v |-> l]

\* Python truth value of an optional str / list parameter
\* (`if module.params.get(x)` / `if not module.params.get(x)`).
Truthy(x) == x.t /= "None" /\ Len(x.v) > 0

LowerChar(c) == IF c = "R" THEN "r" ELSE c

\* str.lower() with the conversion left out.
Lower_Identity(s) == s

\* str.lower()
Lower(s) == [i \in DOMAIN s |-> LowerChar(s[i])]

HasUpper(s) == \E i \in DOMAIN s : s[i] /= LowerChar(s[i])

\* ------------------------------------------------------------- inputs
Names == UNION {[1..n -> Alphabet] : n \in 0..MaxNameLen}

States == {"present", "absent"}
Descriptions == {PyNone, PyStr(<<"My Fancy Parameter Group">>)}
Families == {PyNone, PyStr(<<"redis2.8">>)}
ParameterNameValues == {PyNone, PyList(<<>>), PyList(<< <<"activerehashing", "yes">> >>)}

ElasticacheParams ==
    [state : States,
     name : {PyStr(n) : n \in Names},
     description : Descriptions,
     cache_parameter_group_family : Families,
     parameter_name_values : ParameterNameValues]

KinesisParams == [name : Names, shard_count : 1..MaxShards]

\* ------------------------------------------------- the AWS environment
NoError == [error_code |-> "", error_message |-> ""]
NotFoundCode == "CacheParameterGroupNotFound"
NoModifications == "No modifications were requested."

BotoServerErrors ==
    {[error_code |-> NotFoundCode, error_message |-> "CacheParameterGroup not found"],
     [error_code |-> "InvalidParameterValue", error_message |-> NoModifications],
     [error_code |-> "InternalFailure", error_message |-> "An internal error occurred"]}

ApiOutcomes == {NoError} \cup BotoServerErrors

StreamNotFound == [error_code |-> "ResourceNotFoundException", error_message |-> "Stream not found"]
ClientErrors ==
    {StreamNotFound,
     [error_code |-> "InternalFailure", error_message |-> "An internal error occurred"]}

\* The streams that exist in the account before the first run.
InitialStreams == {<<"R">>}

VARIABLES
    groups,     \* names of the cache parameter groups that exist in the service
    streams,    \* names of the Kinesis streams that exist in the service
    invoked,    \* the module run last ("none" before the first run)
    params,     \* module.params of the last run
    calls,      \* the API calls the last run made, in order, with their answers
    result,     \* what the last run handed to exit_json / fail_json
    existed,    \* whether the named resource existed when the last run started
    rerun       \* "none", or, when the last run repeated the parameters of the
                \* run before it, what that earlier run did

vars == <<groups, streams, invoked, params, calls, result, existed, rerun>>

\* ------------------------------------------------------ result plumbing
Call(op, name, err) == [op |-> op, name |-> name, error |-> err]

NoFacts == <<>>

\* module.exit_json(changed=..., ansible_facts=...)
exit_json(changed, facts, c, remote) ==
    [calls |-> c, remote |-> remote,
     result |-> [failed |-> FALSE, changed |-> changed, msg |-> <<>>,
                 ansible_facts |-> facts]]

\* module.fail_json(msg=...): the process exits, nothing later runs.
fail_json(msg, c, remote) ==
    [calls |-> c, remote |-> remote,
     result |-> [failed |-> TRUE, changed |-> FALSE, msg |-> msg,
                 ansible_facts |-> NoFacts]]

NoResult == [failed |-> FALSE, changed |-> FALSE, msg |-> <<>>, ansible_facts |-> NoFacts]
NoParams == [state |-> "none"]


\* ------------------------------------- elasticache_parameter_group.py
DescribeOp == "describe_cache_parameter_groups"
CreateOp == "create_cache_parameter_group"
ModifyOp == "modify_cache_parameter_group"
DeleteOp == "delete_cache_parameter_group"

NoMsg == <<>>

SetMin(S) == CHOOSE i \in S : \A j \in S : i <= j

\* `for k in keys: if not module.params.get(k): fail_json`: the first key
\* that stops the loop, 0 when the loop runs through.
FirstFalsy(p, keys) ==
    LET bad == {i \in DOMAIN keys : ~Truthy(p[keys[i]])}
    IN  IF bad = {} THEN 0 ELSE SetMin(bad)

\* `for k in keys: if module.params.get(k): fail_json`
FirstTruthy(p, keys) ==
    LET bad == {i \in DOMAIN keys : Truthy(p[keys[i]])}
    IN  IF bad = {} THEN 0 ELSE SetMin(bad)

RequiredPresent == <<"name", "description">>
NotAllowedAbsent == <<"description", "cache_parameter_group_family", "parameter_name_values">>
RequiredCreate == <<"cache_parameter_group_family">>
RequiredModify == <<"parameter_name_values">>

MsgRequiredPresent == "Parameter %s required for state='present'"
MsgNotAllowedAbsent == "Parameter %s not allowed for state='absent'"
MsgRequiredCreate == "Parameter %s required for state='present' and does not exist"
MsgRequiredModify == "Parameter %s required for state='present' and exists"

\* check_params with parameter_name_values missing from the not-allowed list.
check_params_ValuesAllowed(p) ==
    IF p.state = "present"
    THEN LET i == FirstFalsy(p, RequiredPresent)
         IN  IF i = 0 THEN NoMsg ELSE <<MsgRequiredPresent, RequiredPresent[i]>>
    ELSE LET keys == <<"description", "cache_parameter_group_family">>
             i == FirstTruthy(p, keys)
         IN  IF i = 0 THEN NoMsg ELSE <<MsgNotAllowedAbsent, keys[i]>>

\* The argument checks made before any connection exists: the message
\* given to fail_json, NoMsg when the checks pass.
check_params(p) ==
    IF p.state = "present"
    THEN LET i == FirstFalsy(p, RequiredPresent)
         IN  IF i = 0 THEN NoMsg ELSE <<MsgRequiredPresent, RequiredPresent[i]>>
    ELSE LET i == FirstTruthy(p, NotAllowedAbsent)
         IN  IF i = 0 THEN NoMsg ELSE <<MsgNotAllowedAbsent, NotAllowedAbsent[i]>>

\* What conn.describe_cache_parameter_groups(group_name) returns when it
\* does not raise: the groups of that name.
matching_groups(g, group_name) ==
    IF group_name \in g THEN <<group_name>> ELSE <<>>

\* The inner handler: any error but CacheParameterGroupNotFound is fatal.
describe_fails(dErr) ==
    dErr /= NoError /\ dErr.error_code /= NotFoundCode

\* `exists` after the inner try: False unless describe returned a group.
group_exists(dErr, g, group_name) ==
    IF dErr = NoError THEN Len(matching_groups(g, group_name)) > 0 ELSE FALSE

\* The outer handler with the "no modifications" answer treated as any
\* other error.
BotoServerError_handler_AlwaysFail(e, c, g) ==
    fail_json(<<e.error_message>>, c, g)

\* The outer handler: `except BotoServerError, e`, then exit_json.
BotoServerError_handler(e, c, g) ==
    IF e.error_message /= NoModifications
    THEN fail_json(<<e.error_message>>, c, g)
    ELSE exit_json(FALSE, NoFacts, c, g)

\* state == 'absent' with the delete issued whether or not the group exists.
absent_branch_AlwaysDelete(group_name, exists, mErr, c, g) ==
    LET c2 == Append(c, Call(DeleteOp, group_name, mErr))
    IN  IF mErr /= NoError
        THEN BotoServerError_handler(mErr, c2, g)
        ELSE exit_json(TRUE, NoFacts, c2, g \ {group_name})

\* state == 'absent'
absent_branch(group_name, exists, mErr, c, g) ==
    IF exists
    THEN LET c2 == Append(c, Call(DeleteOp, group_name, mErr))
         IN  IF mErr /= NoError
             THEN BotoServerError_handler(mErr, c2, g)
             ELSE exit_json(TRUE, NoFacts, c2, g \ {group_name})
    ELSE exit_json(FALSE, NoFacts, c, g)

\* The create branch without `changed = True` after the call.
create_branch_ChangedNotSet(p, group_name, mErr, c, g) ==
    LET i == FirstFalsy(p, RequiredCreate)
        c2 == Append(c, Call(CreateOp, group_name, mErr))
    IN  IF i /= 0
        THEN fail_json(<<MsgRequiredCreate, RequiredCreate[i]>>, c, g)
        ELSE IF mErr /= NoError
             THEN BotoServerError_handler(mErr, c2, g)
             ELSE exit_json(FALSE, NoFacts, c2, g \cup {group_name})

\* The create branch followed by the modify call of the other branch.
create_branch_ThenModify(p, group_name, mErr, c, g) ==
    LET i == FirstFalsy(p, RequiredCreate)
        c2 == Append(c, Call(CreateOp, group_name, mErr))
        c3 == Append(c2, Call(ModifyOp, group_name, NoError))
    IN  IF i /= 0
        THEN fail_json(<<MsgRequiredCreate, RequiredCreate[i]>>, c, g)
        ELSE IF mErr /= NoError
             THEN BotoServerError_handler(mErr, c2, g)
             ELSE exit_json(TRUE, NoFacts, c3, g \cup {group_name})

\* state == 'present' and not exists
create_branch(p, group_name, mErr, c, g) ==
    LET i == FirstFalsy(p, RequiredCreate)
        c2 == Append(c, Call(CreateOp, group_name, mErr))
    IN  IF i /= 0
        THEN fail_json(<<MsgRequiredCreate, RequiredCreate[i]>>, c, g)
        ELSE IF mErr /= NoError
             THEN BotoServerError_handler(mErr, c2, g)
             ELSE exit_json(TRUE, NoFacts, c2, g \cup {group_name})

\* The modify branch that returns unchanged, instead of failing, when no
\* parameter_name_values are given.
modify_branch_SkipWithoutValues(p, group_name, mErr, c, g) ==
    LET i == FirstFalsy(p, RequiredModify)
        c2 == Append(c, Call(ModifyOp, group_name, mErr))
    IN  IF i /= 0
        THEN exit_json(FALSE, NoFacts, c, g)
        ELSE IF mErr /= NoError
             THEN BotoServerError_handler(mErr, c2, g)
             ELSE exit_json(TRUE, NoFacts, c2, g)

\* state == 'present' and exists
modify_branch(p, group_name, mErr, c, g) ==
    LET i == FirstFalsy(p, RequiredModify)
        c2 == Append(c, Call(ModifyOp, group_name, mErr))
    IN  IF i /= 0
        THEN fail_json(<<MsgRequiredModify, RequiredModify[i]>>, c, g)
        ELSE IF mErr /= NoError
             THEN BotoServerError_handler(mErr, c2, g)
             ELSE exit_json(TRUE, NoFacts, c2, g)

\* main() of elasticache_parameter_group.py, run against the groups g, with
\* dErr the answer of the describe call and mErr the answer of the create,
\* modify or delete call (NoError: the call succeeds).
elasticache_main(p, dErr, mErr, g) ==
    LET group_name == Lower(p.name.v)
        msg == check_params(p)
        c1 == <<Call(DescribeOp, group_name, dErr)>>
        exists == group_exists(dErr, g, group_name)
    IN  IF msg /= NoMsg THEN fail_json(msg, <<>>, g)
        ELSE IF describe_fails(dErr) THEN fail_json(<<dErr.error_message>>, c1, g)
        ELSE IF p.state = "absent" THEN absent_branch(group_name, exists, mErr, c1, g)
        ELSE IF ~exists THEN create_branch(p, group_name, mErr, c1, g)
        ELSE modify_branch(p, group_name, mErr, c1, g)

\* The answers the service can give to describe: it does not report an
\* existing group as not found.
DescribeOutcomes(g, group_name) ==
    {e \in ApiOutcomes : group_name \in g => e.error_code /= NotFoundCode}

\* The answers <<describe, create/modify/delete>> the service can give to
\* the calls of one run (NoError stands for a call that is never made).
ElasticacheAnswers(p, g) ==
    IF check_params(p) /= NoMsg THEN {<<NoError, NoError>>}
    ELSE {<<d, m>> : d \in DescribeOutcomes(g, Lower(p.name.v)), m \in ApiOutcomes}

\* What the run before did, as seen by a repeat of it.
Summary(r, c) ==
    IF r.failed THEN "failed"
    ELSE IF ~r.changed THEN "unchanged"
    ELSE c[Len(c)].op

\* One run of the elasticache_parameter_group module.
ElasticacheParameterGroup ==
    \E p \in ElasticacheParams :
      \E a \in ElasticacheAnswers(p, groups) :
        \E out \in {elasticache_main(p, a[1], a[2], groups)} :
            /\ groups' = out.remote
            /\ calls' = out.calls
            /\ result' = out.result
            /\ invoked' = "elasticache_parameter_group"
            /\ params' = p
            /\ existed' = (Lower(p.name.v) \in groups)
            /\ rerun' = IF invoked = "elasticache_parameter_group" /\ params = p
                        THEN Summary(result, calls)
                        ELSE "none"
            /\ UNCHANGED streams

\* ---------------------------------------------------------- kinesis.py
DescribeStreamOp == "describe_stream"
CreateStreamOp == "create_stream"

\* KinesisManager.exists(): True when describe_stream returns; every
\* exception, the not-found answer among them, goes to fail_json, which
\* ends the process. `returned` tells whether exists() returned at all.
KinesisManager_exists(dErr) ==
    IF dErr = NoError
    THEN [returned |-> TRUE, value |-> TRUE, msg |-> NoMsg]
    ELSE [returned |-> FALSE, value |-> FALSE, msg |-> <<dErr.error_message>>]

\* KinesisManager.create() followed by the exit_json of main().
KinesisManager_create(p, dErr, cErr, s) ==
    LET c1 == <<Call(DescribeStreamOp, p.name, dErr)>>
        c2 == Append(c1, Call(CreateStreamOp, p.name, cErr))
        ex == KinesisManager_exists(dErr)
        facts == << <<"name", p.name>> >>
    IN  IF ~ex.returned THEN fail_json(ex.msg, c1, s)
        ELSE IF ex.value THEN exit_json(FALSE, facts, c1, s)
        ELSE IF cErr /= NoError THEN fail_json(<<cErr.error_message>>, c2, s)
        ELSE exit_json(TRUE, facts, c2, s \cup {p.name})

\* main() of kinesis.py: the name is handed on as given.
kinesis_main(p, dErr, cErr, s) ==
    KinesisManager_create(p, dErr, cErr, s)

\* The answers the service can give to describe_stream: a stream that does
\* not exist is never described.
DescribeStreamOutcomes(s, name) ==
    IF name \in s THEN {NoError} \cup (ClientErrors \ {StreamNotFound})
    ELSE ClientErrors

\* One run of the kinesis module.
Kinesis ==
    \E p \in KinesisParams :
      \E dErr \in DescribeStreamOutcomes(streams, p.name),
         cErr \in {NoError} \cup ClientErrors :
        \E out \in {kinesis_main(p, dErr, cErr, streams)} :
            /\ streams' = out.remote
            /\ calls' = out.calls
            /\ result' = out.result
            /\ invoked' = "kinesis"
            /\ params' = p
            /\ existed' = (p.name \in streams)
            /\ rerun' = "none"
            /\ UNCHANGED groups

\* ------------------------------------------------------- specification
Init ==
    /\ groups = {}
    /\ streams = InitialStreams
    /\ invoked = "none"
    /\ params = NoParams
    /\ calls = <<>>
    /\ result = NoResult
    /\ existed = FALSE
    /\ rerun = "none"

Next == ElasticacheParameterGroup \/ Kinesis

Spec == Init /\ [][Next]_vars

\* ------------------------------------------------- reading the last run
IsElasticache == invoked = "elasticache_parameter_group"
IsKinesis == invoked = "kinesis"

MutatingOps == {CreateOp, ModifyOp, DeleteOp}

Count(op) == Cardinality({i \in DOMAIN calls : calls[i].op = op})
NumMutating == Cardinality({i \in DOMAIN calls : calls[i].op \in MutatingOps})

\* No call of the run raised.
NoApiError == \A i \in DOMAIN calls : calls[i].error = NoError

\* The describe call raised an error other than not-found.
DescribeRaised ==
    /\ Len(calls) >= 1
    /\ calls[1].error /= NoError
    /\ calls[1].error.error_code /= NotFoundCode

LastCall == calls[Len(calls)]

GroupName == Lower(params.name.v)

\* The answers that are not failures: not-found to describe, and "no
\* modifications were requested" to modify.
Benign(c) ==
    \/ c.op = DescribeOp /\ c.error.error_code = NotFoundCode
    \/ c.op = ModifyOp /\ c.error.error_message = NoModifications

NoAttributes ==
    /\ ~Truthy(params.description)
    /\ ~Truthy(params.cache_parameter_group_family)
    /\ ~Truthy(params.parameter_name_values)

\* ---------------------------------------------------------------- C1
\* C1 (as amended): a run repeated with the same parameters. After a run
\* that deleted the group, the repeat issues no mutating call and, unless
\* describe raises, returns changed=false. After a run that created the
\* group, the repeat finds it existing: with no API error it fails for want
\* of parameter_name_values, or issues one modify call and returns
\* changed=true; it returns changed=false only when modify is answered "No
\* modifications were requested."
C1_RepeatAfterChange ==
    IsElasticache =>
      /\ rerun = DeleteOp =>
           /\ ~existed
           /\ NumMutating = 0
           /\ result.failed => DescribeRaised
           /\ ~result.failed => ~result.changed
      /\ rerun = CreateOp =>
           /\ existed
           /\ Count(CreateOp) = 0 /\ Count(DeleteOp) = 0
           /\ NoApiError =>
                IF Truthy(params.parameter_name_values)
                THEN ~result.failed /\ result.changed /\ Count(ModifyOp) = 1
                ELSE result.failed /\ NumMutating = 0
           /\ (~result.failed /\ ~result.changed) =>
                /\ LastCall.op = ModifyOp
                /\ LastCall.error.error_message = NoModifications

\* A repeat of a creating run that modifies and reports changed=true again.
C1_Witness ==
    /\ IsElasticache
    /\ rerun = CreateOp
    /\ ~result.failed
    /\ result.changed
    /\ Count(ModifyOp) = 1

\* C1 as stated, for presence=Present: the first run creates the group
\* (changed=true) and the identical second run returns changed=false.
C1_TrueThenFalse ==
    (IsElasticache /\ rerun = CreateOp /\ NoApiError) =>
        (~result.failed /\ ~result.changed)

\* ---------------------------------------------------------------- C2
\* C2 (as amended): a run issues at most one mutating call; a run that
\* succeeds issues exactly one, except that with state=absent and no
\* existing group it issues none.
C2_AtMostOneMutatingCall ==
    IsElasticache =>
      /\ NumMutating <= 1
      /\ ~result.failed =>
           NumMutating = (IF params.state = "absent" /\ ~existed THEN 0 ELSE 1)

C2_Witness ==
    /\ IsElasticache
    /\ params.state = "absent"
    /\ ~existed
    /\ ~result.failed
    /\ NumMutating = 0

\* C2 as stated: every run that completes issues exactly one mutating call.
C2_ExactlyOneMutatingCall ==
    (IsElasticache /\ ~result.failed) => NumMutating = 1

C4_CreateWhenMissing ==
    ( /\ IsElasticache
      /\ params.state = "present"
      /\ ~existed
      /\ Truthy(params.cache_parameter_group_family)
      /\ Truthy(params.name)
      /\ Truthy(params.description)
      /\ ~DescribeRaised ) =>
      /\ Count(CreateOp) = 1 /\ Count(ModifyOp) = 0 /\ Count(DeleteOp) = 0
      /\ Len(calls) = 2 /\ LastCall.op = CreateOp
      /\ LastCall.error = NoError =>
           /\ ~result.failed
           /\ result.changed
           /\ GroupName \in groups

C4_Witness ==
    /\ IsElasticache
    /\ params.state = "present"
    /\ ~existed
    /\ Truthy(params.cache_parameter_group_family)
    /\ Truthy(params.description)
    /\ Count(CreateOp) = 1
    /\ ~result.failed
    /\ result.changed

\* C4 as stated: the create happens whether or not a description is given.
C4_CreateWithoutDescription ==
    ( /\ IsElasticache
      /\ params.state = "present"
      /\ ~existed
      /\ Truthy(params.name)
      /\ Truthy(params.cache_parameter_group_family)
      /\ NoApiError ) =>
      /\ Count(CreateOp) = 1
      /\ ~result.failed
      /\ result.changed

\* ---------------------------------------------------------------- C5
\* C5 (as amended): state=present, the group exists, parameter_name_values
\* and a description are given, describe does not fail: the run issues
\* exactly one modify call, no create or delete; when modify succeeds the
\* result is changed=true, when it is answered "No modifications were
\* requested." the run succeeds with changed=false.
C5_ModifyWhenExisting ==
    ( /\ IsElasticache
      /\ params.state = "present"
      /\ existed
      /\ Truthy(params.parameter_name_values)
      /\ Truthy(params.description)
      /\ ~DescribeRaised ) =>
      /\ Count(ModifyOp) = 1 /\ Count(CreateOp) = 0 /\ Count(DeleteOp) = 0
      /\ Len(calls) = 2 /\ LastCall.op = ModifyOp
      /\ LastCall.error = NoError => (~result.failed /\ result.changed)
      /\ LastCall.error.error_message = NoModifications =>
           (~result.failed /\ ~result.changed)
      /\ GroupName \in groups

\* The modify call answered "No modifications were requested."
C5_Witness ==
    /\ IsElasticache
    /\ params.state = "present"
    /\ existed
    /\ Truthy(params.parameter_name_values)
    /\ Count(ModifyOp) = 1
    /\ LastCall.error.error_message = NoModifications
    /\ ~result.failed
    /\ ~result.changed

\* C5 as stated: the modify happens whether or not a description is given.
C5_ModifyWithoutDescription ==
    ( /\ IsElasticache
      /\ params.state = "present"
      /\ existed
      /\ Truthy(params.parameter_name_values)
      /\ NoApiError ) =>
      /\ Count(ModifyOp) = 1
      /\ ~result.failed
      /\ result.changed

\* ---------------------------------------------------------------- C6
\* C6: state=absent with no attributes, describe answering (a list, or
\* not-found). If the group exists: exactly one delete call, no create or
\* modify, and changed=true with the group gone once the delete call
\* succeeds. If it does not exist: no mutating call, success, changed=false.
C6_AbsentDeletesOnlyExisting ==
    ( /\ IsElasticache
      /\ params.state = "absent"
      /\ NoAttributes
      /\ ~DescribeRaised ) =>
      IF existed
      THEN /\ Count(DeleteOp) = 1 /\ Count(CreateOp) = 0 /\ Count(ModifyOp) = 0
           /\ LastCall.error = NoError =>
                /\ ~result.failed
                /\ result.changed
                /\ GroupName \notin groups
      ELSE /\ NumMutating = 0
           /\ ~result.failed
           /\ ~result.changed
           /\ GroupName \notin groups

C6_Witness ==
    /\ IsElasticache
    /\ params.state = "absent"
    /\ NoAttributes
    /\ existed
    /\ Count(DeleteOp) = 1
    /\ ~result.failed
    /\ result.changed

\* ---------------------------------------------------------------- C7
\* C7: a run of the stream module on a stream that does not exist (describe
\* answers not-found) issues one create_stream call and returns
\* changed=true with the name as a fact; on a stream that exists it issues
\* no create_stream call and returns changed=false.
C7_CreatesMissingStream ==
    IsKinesis =>
      IF existed
      THEN NoApiError =>
             /\ Count(CreateStreamOp) = 0
             /\ ~result.failed
             /\ ~result.changed
      ELSE calls[1].error = StreamNotFound =>
             /\ Count(CreateStreamOp) = 1
             /\ ~result.failed
             /\ result.changed
             /\ result.ansible_facts = << <<"name", params.name>> >>

\* ---------------------------------------------------------------- C8
\* C8: a call that raises (other than describe answering not-found, or
\* modify answering "No modifications were requested.") is the last call of
\* the run, and the run fails.
C8_RemoteErrorsFail ==
    IsElasticache =>
      \A i \in DOMAIN calls :
        (calls[i].error /= NoError /\ ~Benign(calls[i])) =>
            (result.failed /\ i = Len(calls))

\* ---------------------------------------------------------------- C9
\* C9 (as amended): every call of a parameter-group run carries the
\* lower-cased name, character by character; the stream module passes the
\* name as given.
C9_GroupCallsLowercase ==
    /\ IsElasticache =>
         \A i \in DOMAIN calls :
           /\ Len(calls[i].name) = Len(params.name.v)
           /\ \A j \in DOMAIN calls[i].name :
                calls[i].name[j] = LowerChar(params.name.v[j])
           /\ ~HasUpper(calls[i].name)
    /\ IsKinesis => \A i \in DOMAIN calls : calls[i].name = params.name

C9_Witness ==
    /\ IsElasticache
    /\ HasUpper(params.name.v)
    /\ Len(calls) = 2
    /\ ~HasUpper(calls[1].name)
    /\ ~HasUpper(calls[2].name)

\* C9 as stated: no API call of any run carries an uppercase character.
C9_AllCallsLowercase ==
    \A i \in DOMAIN calls : ~HasUpper(calls[i].name)

\* --------------------------------------------------------------- C10
\* C10: after a parameter-group run that succeeds the group exists exactly
\* when state was present; a run that fails or returns changed=false leaves
\* the group's existence as it was.
C10_Convergence ==
    IsElasticache =>
      /\ ~result.failed => ((GroupName \in groups) = (params.state = "present"))
      /\ (result.failed \/ ~result.changed) => ((GroupName \in groups) = existed)

====
